---- MODULE Spec2Model ----
(***************************************************************************)
(* Pixel-Ripper: the per-frame pipeline of src/src/ascii_engine.c driven   *)
(* by the loops of src/src/main.c.                                         *)
(*                                                                         *)
(* The main thread runs one of the four driver paths of main() (image or   *)
(* video input, console or file output).  For every decoded frame it runs  *)
(* engine_process_frame_to_ascii: arena_reset, two arena_alloc calls, the  *)
(* null check, sws_scale, one pthread_create per row band, one             *)
(* pthread_join per worker.  Each worker (process_slice_worker) writes the *)
(* cells of its band one at a time, interleaved with the other workers and *)
(* with the spawning and joining main thread.  The renderer of the mode    *)
(* (engine_render_to_console, engine_render_to_image_file,                 *)
(* engine_encode_video_frame) then consumes the grid.                      *)
(*                                                                         *)
(* Scale: the source gives the arena 64 MiB and grids of thousands of      *)
(* cells.  The model keeps the 16-byte alignment and the byte sizes of     *)
(* every request and draws the arena capacity from ArenaCapacities, so     *)
(* that grids of at most MaxWidth columns meet every allocation outcome    *)
(* (both frame buffers fit, only the character buffer fits, none fits,     *)
(* the scratch buffer of the renderer does not fit).                       *)
(*                                                                         *)
(* Assumptions: pthread_create and pthread_join succeed (the source        *)
(* ignores their results); the decoder, the scaler and the encoder         *)
(* library calls succeed unless the model names their failure; SIGINT is   *)
(* not delivered.                                                          *)
(***************************************************************************)
EXTENDS Integers, Sequences, FiniteSets, TLC

\* ------------------------------------------------------------------ bounds
MaxThreads == 2     \* worker counts 1..MaxThreads
MaxWidth == 3       \* config.output_width in 0..MaxWidth
MaxPackets == 2     \* packets read from the container in one run

\* ------------------------------------------------------- program constants
ArenaAlign == 16    \* (size + 15) & ~15
GlyphPx == 8        \* one cell is an 8x8 pixel block
ScratchPerCell == 20 \* console scratch bytes per cell
ScratchPerRow == 2  \* console scratch bytes per row
NULL == -1          \* a null pointer; valid pointers are arena offsets >= 0

\* The capacities arena_init is given (64 MiB in the source, scaled).
ArenaCapacities == {8, 16, 32, 96, 1024}

\* The sizes (width, height) of the decoded picture.
SrcSizes == {<<4, 4>>, <<2, 4>>}

\* The window sizes (ws_col, ws_row) the TIOCGWINSZ ioctl reports.
TermSizes == {<<2, 2>>, <<1, 3>>, <<3, 1>>}

Modes == {"image_console", "image_file", "video_console", "video_file"}
IsVideo(m) == m \in {"video_console", "video_file"}
HasOutputFile(m) == m \in {"image_file", "video_file"}

\* ------------------------------------------------------------ Memory arena
arena_init(size) == [start |-> 0, size |-> size, used |-> 0]

AlignUp(size) == ((size + (ArenaAlign - 1)) \div ArenaAlign) * ArenaAlign

\* arena_alloc without the rounding of the size.
arena_alloc_unaligned(a, size) ==
    IF a.used + size > a.size
    THEN [arena |-> a, p |-> NULL]
    ELSE [arena |-> [a EXCEPT !.used = a.used + size], p |-> a.used]

\* arena_alloc that hands out the mark and leaves it where it is.
arena_alloc_NoAdvance(a, size) ==
    IF a.used + AlignUp(size) > a.size
    THEN [arena |-> a, p |-> NULL]
    ELSE [arena |-> a, p |-> a.used]

\* The arena after the call and the pointer returned.
arena_alloc(a, size) ==
    LET s == AlignUp(size)
    IN  IF a.used + s > a.size
        THEN [arena |-> a, p |-> NULL]
        ELSE [arena |-> [a EXCEPT !.used = a.used + s], p |-> a.used]

\* arena_reset that leaves the mark where it is.
arena_reset_keep(a) == a

arena_reset(a) == [a EXCEPT !.used = 0]

arena_free(a) == [start |-> NULL, size |-> 0, used |-> 0]

\* ------------------------------------------------------------ Source frame
\* Decoded pictures: packed RGB, here gray pixels from {0, 128, 255}; one
\* uniform picture and one that varies along rows and along columns.
FrameIds == {"gray", "diag"}

\* Pictures of one colour.
UniformColor ==
    [black |-> <<0, 0, 0>>, gray |-> <<128, 128, 128>>,
     white |-> <<255, 255, 255>>, tint |-> <<200, 100, 50>>,
     teal |-> <<8, 80, 32>>]
UniformFrames == DOMAIN UniformColor

\* Pictures with an intensity boundary.
EdgeFrames == {"vsplit", "hsplit", "diag", "graysplit"}

\* The pixel at (sx, sy) of picture f, sw pixels wide: "vsplit" has a black
\* left half and a white right half, "graysplit" a mid-gray left half and a
\* white right half, "hsplit" a black top row above white rows, "diag" is
\* black on and below the main diagonal and white above it.
Pixel(f, sw, sx, sy) ==
    IF f \in UniformFrames THEN UniformColor[f]
    ELSE IF f = "hsplit"
    THEN (IF sy < 1 THEN <<0, 0, 0>> ELSE <<255, 255, 255>>)
    ELSE IF f = "diag"
    THEN (IF sx > sy THEN <<255, 255, 255>> ELSE <<0, 0, 0>>)
    ELSE IF f = "graysplit"
    THEN (IF sx < sw \div 2 THEN <<128, 128, 128>> ELSE <<255, 255, 255>>)
    ELSE IF sx < sw \div 2 THEN <<0, 0, 0>> ELSE <<255, 255, 255>>

\* 0.299 R + 0.587 G + 0.114 B (exact on the gray pixels above).
Luma(p) == (299 * p[1] + 587 * p[2] + 114 * p[3]) \div 1000

\* Colours whose weighted sum is a whole number in exact arithmetic and one
\* unit in the last place below it in single precision (0.299f, 0.587f and
\* 0.114f are not exact): 0.299 * 8 + 0.587 * 80 + 0.114 * 32 = 53 and
\* 61 * (0.299 + 0.587 + 0.114) = 61, computed as 52.99999... and 60.99999...
JustBelowWhole == {<<8, 80, 32>>, <<61, 61, 61>>}

\* (uint8_t)luma: the float sum truncated toward zero.
LumaByte(p) == IF p \in JustBelowWhole THEN Luma(p) - 1 ELSE Luma(p)

\* Wraparound in place of edge replication.
Clamp_Wrap(v, n) == v % n
Clamp(v, n) == IF v < 0 THEN 0 ELSE IF v >= n THEN n - 1 ELSE v

\* --------------------------------------------------------------- init_luts
\* The bytes of the ramp string literals (unsigned).
flat_ramp ==
    <<96, 46, 45, 39, 58, 95, 44, 94, 61, 59, 62, 60, 43, 33, 114, 99, 42, 47,
      122, 63, 115, 76, 84, 118, 41, 74, 55, 40, 124, 70, 105, 123, 67, 125,
      102, 73, 51, 49, 116, 108, 117, 91, 110, 101, 111, 90, 53, 89, 120, 106,
      121, 97, 93, 50, 69, 83, 119, 113, 107, 80, 54, 104, 57, 100, 52, 86,
      112, 79, 71, 98, 85, 65, 75, 88, 72, 109, 56, 82, 68, 35, 36, 66, 103,
      48, 77, 78, 87, 81, 37, 38, 64>>
flat_ramp_len == 90
vertical_ramp == <<124, 194, 166>>
horizontal_ramp == <<45, 61>>
diagonal1_ramp == <<92, 95>>
diagonal2_ramp == <<47, 95>>
edge_ramp_len == 2

\* ramp[(int)(br * (len - 1))] with br = i / 255.0f; sequences are 1-based.
RampAt(ramp, len, i) == ramp[((i * (len - 1)) \div 255) + 1]

char_lut_flat(i) == RampAt(flat_ramp, flat_ramp_len, i)
char_lut_vert(i) == RampAt(vertical_ramp, edge_ramp_len, i)
char_lut_horz(i) == RampAt(horizontal_ramp, edge_ramp_len, i)
char_lut_diag1(i) == RampAt(diagonal1_ramp, edge_ramp_len, i)
char_lut_diag2(i) == RampAt(diagonal2_ramp, edge_ramp_len, i)

\* (uint8_t)(powf(i / 255.0f, 1.0f / 2.2f) * 255.0f) for i = 0..255.
gamma_table ==
    <<0, 20, 28, 33, 38, 42, 46, 49, 52, 55, 58, 61, 63, 65, 68, 70,
      72, 74, 76, 78, 80, 81, 83, 85, 87, 88, 90, 91, 93, 94, 96, 97,
      99, 100, 102, 103, 104, 106, 107, 108, 109, 111, 112, 113, 114, 115, 117, 118,
      119, 120, 121, 122, 123, 124, 125, 126, 128, 129, 130, 131, 132, 133, 134, 135,
      136, 136, 137, 138, 139, 140, 141, 142, 143, 144, 145, 146, 147, 147, 148, 149,
      150, 151, 152, 153, 153, 154, 155, 156, 157, 158, 158, 159, 160, 161, 162, 162,
      163, 164, 165, 165, 166, 167, 168, 168, 169, 170, 171, 171, 172, 173, 174, 174,
      175, 176, 176, 177, 178, 178, 179, 180, 181, 181, 182, 183, 183, 184, 185, 185,
      186, 187, 187, 188, 189, 189, 190, 190, 191, 192, 192, 193, 194, 194, 195, 196,
      196, 197, 197, 198, 199, 199, 200, 200, 201, 202, 202, 203, 203, 204, 205, 205,
      206, 206, 207, 208, 208, 209, 209, 210, 210, 211, 212, 212, 213, 213, 214, 214,
      215, 216, 216, 217, 217, 218, 218, 219, 219, 220, 220, 221, 222, 222, 223, 223,
      224, 224, 225, 225, 226, 226, 227, 227, 228, 228, 229, 229, 230, 230, 231, 231,
      232, 232, 233, 233, 234, 234, 235, 235, 236, 236, 237, 237, 238, 238, 239, 239,
      240, 240, 241, 241, 242, 242, 243, 243, 244, 244, 245, 245, 246, 246, 247, 247,
      248, 248, 249, 249, 249, 250, 250, 251, 251, 252, 252, 253, 253, 254, 254, 255>>
gamma_lut(i) == gamma_table[i + 1]

\* ---------------------------------------- process_slice_worker: one cell
EdgeTenths == 4         \* config.edge_strength = 0.4f
DThresh == 241421       \* D_THRESH = 2.41421356f, in units of 1/100000
DUnit == 100000

Abs(v) == IF v < 0 THEN -v ELSE v

\* (int)((float)x / ascii_width * width); exact for the grids of the model.
SourceCoord(c, cells, extent) == (c * extent) \div cells

sobel_x(ky, kx) == (IF ky = 0 THEN 2 ELSE 1) * (-kx)
\* The y kernel without its bottom row: the weights no longer sum to zero.
sobel_y_TopRowOnly(ky, kx) == IF ky = -1 THEN (IF kx = 0 THEN 2 ELSE 1) ELSE 0
sobel_y(ky, kx) == (IF kx = 0 THEN 2 ELSE 1) * (-ky)

\* The window position at offset (kx, ky), clamped to the picture.
WindowSample(sw, sh, sx0, sy0, kx, ky) ==
    <<Clamp(sx0 + kx, sw), Clamp(sy0 + ky, sh)>>

\* Luma of the window sample at offset (kx, ky).
SampleLuma(f, sw, sh, sx0, sy0, kx, ky) ==
    LET s == WindowSample(sw, sh, sx0, sy0, kx, ky)
    IN  Luma(Pixel(f, sw, s[1], s[2]))

\* The window sample at offset (kx, ky) times its weight in the x or y kernel.
Term(f, sw, sh, sx0, sy0, horizontal, kx, ky) ==
    SampleLuma(f, sw, sh, sx0, sy0, kx, ky)
        * (IF horizontal THEN sobel_x(ky, kx) ELSE sobel_y(ky, kx))

\* The sum over the nine window offsets, ky outermost as in the source.
SumOver(f, sw, sh, sx0, sy0, horizontal) ==
    Term(f, sw, sh, sx0, sy0, horizontal, -1, -1)
    + Term(f, sw, sh, sx0, sy0, horizontal, 0, -1)
    + Term(f, sw, sh, sx0, sy0, horizontal, 1, -1)
    + Term(f, sw, sh, sx0, sy0, horizontal, -1, 0)
    + Term(f, sw, sh, sx0, sy0, horizontal, 0, 0)
    + Term(f, sw, sh, sx0, sy0, horizontal, 1, 0)
    + Term(f, sw, sh, sx0, sy0, horizontal, -1, 1)
    + Term(f, sw, sh, sx0, sy0, horizontal, 0, 1)
    + Term(f, sw, sh, sx0, sy0, horizontal, 1, 1)

Gx(f, sw, sh, sx0, sy0) == SumOver(f, sw, sh, sx0, sy0, TRUE)
Gy(f, sw, sh, sx0, sy0) == SumOver(f, sw, sh, sx0, sy0, FALSE)

\* mag_sq < edge_strength_sq, with mag_sq = (gx*gx + gy*gy) / (255 * 255)
\* and config->edge_strength = t10 / 10.
BelowThresholdAt(gx, gy, t10) ==
    (gx * gx + gy * gy) * 100 < t10 * t10 * 255 * 255

\* The ramp selection with the diagonal test made non-strict.
SelectRampAt_DiagNonStrict(gx, gy, t10) ==
    IF BelowThresholdAt(gx, gy, t10) THEN "flat"
    ELSE IF Abs(gy) * DUnit > Abs(gx) * DThresh THEN "vert"
    ELSE IF Abs(gx) * DUnit > Abs(gy) * DThresh THEN "horz"
    ELSE IF gx * gy >= 0 THEN "diag1"
    ELSE "diag2"

\* The ramp the cell's glyph is taken from, for edge_strength = t10 / 10.
SelectRampAt(gx, gy, t10) ==
    IF BelowThresholdAt(gx, gy, t10) THEN "flat"
    ELSE IF Abs(gy) * DUnit > Abs(gx) * DThresh THEN "vert"
    ELSE IF Abs(gx) * DUnit > Abs(gy) * DThresh THEN "horz"
    ELSE IF gx * gy > 0 THEN "diag1"
    ELSE "diag2"

\* The same with the default edge_strength of main().
BelowThreshold(gx, gy) == BelowThresholdAt(gx, gy, EdgeTenths)
SelectRamp(gx, gy) == SelectRampAt(gx, gy, EdgeTenths)

LutChar(ramp, idx) ==
    CASE ramp = "flat" -> char_lut_flat(idx)
      [] ramp = "vert" -> char_lut_vert(idx)
      [] ramp = "horz" -> char_lut_horz(idx)
      [] ramp = "diag1" -> char_lut_diag1(idx)
      [] OTHER -> char_lut_diag2(idx)

\* brightness_idx with the centre sample taken from the mean of the window.
BrightnessIdx_WindowMean(f, sw, sh, sx0, sy0) ==
    gamma_lut((SampleLuma(f, sw, sh, sx0, sy0, -1, -1)
               + SampleLuma(f, sw, sh, sx0, sy0, 0, -1)
               + SampleLuma(f, sw, sh, sx0, sy0, 1, -1)
               + SampleLuma(f, sw, sh, sx0, sy0, -1, 0)
               + SampleLuma(f, sw, sh, sx0, sy0, 0, 0)
               + SampleLuma(f, sw, sh, sx0, sy0, 1, 0)
               + SampleLuma(f, sw, sh, sx0, sy0, -1, 1)
               + SampleLuma(f, sw, sh, sx0, sy0, 0, 1)
               + SampleLuma(f, sw, sh, sx0, sy0, 1, 1)) \div 9)

\* ctx->gamma_lut[(uint8_t)center_luma]: the sample at offset (0, 0).
BrightnessIdx(f, sw, sh, sx0, sy0) ==
    LET s == WindowSample(sw, sh, sx0, sy0, 0, 0)
    IN  gamma_lut(LumaByte(Pixel(f, sw, s[1], s[2])))

\* selected_char of cell (x, y) of a w x h grid over picture f of sw x sh pixels.
CellChar(f, sw, sh, x, y, w, h) ==
    LET sx0 == SourceCoord(x, w, sw)
        sy0 == SourceCoord(y, h, sh)
        brightness_idx == BrightnessIdx(f, sw, sh, sx0, sy0)
        gradient == {<<Gx(f, sw, sh, sx0, sy0), Gy(f, sw, sh, sx0, sy0)>>}
        ramp == CHOOSE r \in {SelectRamp(g[1], g[2]) : g \in gradient} : TRUE
    IN  LutChar(ramp, brightness_idx)

\* The colour triple of cell (x, y): the pixel at the mapped coordinate.
CellColor(f, sw, sh, x, y, w, h) ==
    Pixel(f, sw, SourceCoord(x, w, sw), SourceCoord(y, h, sh))

\* --------------------------------- render_ascii_to_buffer: colour of a cell
\* 1000 * (0.299 R + 0.587 G + 0.114 B).
Luma1000(p) == 299 * p[1] + 587 * p[2] + 114 * p[3]

\* One channel after the saturation block, lines 531-539, for the factor
\* s10 / 10: luma + factor * (c - luma), above 255 -> 255, below 0 -> 0,
\* otherwise truncated.  With factor 0 the sum is the float luma itself; for
\* the other factors (0.5, 2.0) and the colours of the model the
\* single-precision sum truncates as the exact value does.
SaturateChannel(c, p, s10) ==
    IF s10 = 10 THEN c
    ELSE IF s10 = 0 THEN LumaByte(p)
    ELSE LET v == (10 - s10) * Luma1000(p) + s10 * 1000 * c
         IN  IF v > 255 * 10000 THEN 255
             ELSE IF v < 0 THEN 0
             ELSE v \div 10000

Saturate(p, s10) ==
    <<SaturateChannel(p[1], p, s10), SaturateChannel(p[2], p, s10),
      SaturateChannel(p[3], p, s10)>>

\* One channel after the brightness lines 541-547, for the factor b10 / 10.
BrightenChannel(c, b10) == IF c * b10 > 255 * 10 THEN 255 ELSE (c * b10) \div 10

Brighten(p, b10) ==
    <<BrightenChannel(p[1], b10), BrightenChannel(p[2], b10),
      BrightenChannel(p[3], b10)>>

\* The colour written for a cell of colour p: saturation, then brightness.
Adjust(p, s10, b10) == Brighten(Saturate(p, s10), b10)

\* ------------------------------------------ render_ascii_to_buffer: glyphs
\* font8x8_basic belongs to a third-party header that is not part of the
\* repository: a table of 8 row bytes for each of the character codes
\* 0..127.  Three of its entries, as row bytes from top to bottom.
FontSize == 128
FontRows ==
    [c \in {45, 64, 124} |->
        IF c = 45 THEN <<0, 0, 0, 63, 0, 0, 0, 0>>
        ELSE IF c = 64 THEN <<62, 99, 123, 123, 123, 3, 30, 0>>
        ELSE <<24, 24, 24, 0, 24, 24, 24, 0>>]

\* What a read behind the table can return: the bytes of whatever object
\* follows it.
StrayRows ==
    {<<0, 0, 0, 0, 0, 0, 0, 0>>, <<255, 255, 255, 255, 255, 255, 255, 255>>,
     <<1, 128, 0, 60, 0, 0, 129, 7>>}

\* font8x8_basic[char_code], line 521; stray is what a read behind the
\* table returns.
Glyph(char_code, stray) ==
    IF char_code < FontSize THEN FontRows[char_code] ELSE stray

\* (glyph[gy] >> (7 - gx)) & 1
Lit(glyph, gx, gy) == (glyph[gy + 1] \div (2 ^ (7 - gx))) % 2 = 1

\* Pixel index of bit (gx, gy) of cell (x, y): img_idx / 3, lines 552-554.
ImgIdx(x, y, gx, gy, w) == ((y * GlyphPx + gy) * (w * GlyphPx)) + (x * GlyphPx + gx)

\* The cells whose loop body writes pixel index i of a w x h grid: cell
\* (x, y) writes ImgIdx(x, y, gx, gy, w) = i for the one bit (gx, gy) with
\* gx = i % (8 w) - 8 x and gy = i / (8 w) - 8 y, if that bit exists and is lit.
PixelWriters(i, w, h, chars, stray) ==
    {c \in 0..(w * h - 1) :
        LET gx == (i % (w * GlyphPx)) - (c % w) * GlyphPx
            gy == (i \div (w * GlyphPx)) - (c \div w) * GlyphPx
        IN  /\ gx \in 0..(GlyphPx - 1)
            /\ gy \in 0..(GlyphPx - 1)
            /\ ImgIdx(c % w, c \div w, gx, gy, w) = i
            /\ Lit(Glyph(chars[c + 1], stray), gx, gy)}

MaxOf(S) == CHOOSE m \in S : \A n \in S : n <= m

\* The pixel buffer after render_ascii_to_buffer: cleared, then written
\* cell by cell in row-major order (the last writer of a pixel stays).
render_ascii_to_buffer(w, h, chars, colors, s10, b10, stray) ==
    [i \in 0..(w * GlyphPx * h * GlyphPx - 1) |->
        LET ws == PixelWriters(i, w, h, chars, stray)
        IN  IF ws = {} THEN <<0, 0, 0>>
            ELSE Adjust(colors[MaxOf(ws) + 1], s10, b10)]

\* Writes of render_ascii_to_buffer that fall outside the pixel buffer.
StrayWrites(w, h, chars, stray) ==
    {<<c, gx, gy>> \in (0..(w * h - 1)) \X (0..(GlyphPx - 1)) \X (0..(GlyphPx - 1)) :
        /\ Lit(Glyph(chars[c + 1], stray), gx, gy)
        /\ ImgIdx(c % w, c \div w, gx, gy, w)
             \notin 0..(w * GlyphPx * h * GlyphPx - 1)}

\* ------------------------------------------------ engine_render_to_console
\* "%d" of a byte: decimal digits, most significant first, no leading zero.
Decimal(n) ==
    IF n >= 100 THEN <<48 + (n \div 100), 48 + ((n \div 10) % 10), 48 + (n % 10)>>
    ELSE IF n >= 10 THEN <<48 + (n \div 10), 48 + (n % 10)>>
    ELSE <<48 + n>>

\* What sprintf(buf_ptr, "\x1b[38;2;%d;%d;%dm%c", r, g, b, ch) stores before
\* its NUL: ESC [ 3 8 ; 2 ; r ; g ; b m ch.
ColorCellBytes(color, ch) ==
    <<27, 91, 51, 56, 59, 50, 59>> \o Decimal(color[1]) \o <<59>>
        \o Decimal(color[2]) \o <<59>> \o Decimal(color[3]) \o <<109, ch>>

\* The bytes one cell adds to the frame buffer, lines 493-500.
ConsoleCellBytes(use_color, color, ch) ==
    IF use_color THEN ColorCellBytes(color, ch) ELSE <<ch>>

\* "\x1b[H": cursor to the home position.
CursorHome == <<27, 91, 72>>

\* ------------------------------------------------------------------- state
VARIABLES
    mode,           \* the driver path of main()
    num_threads,    \* ctx->num_threads
    width,          \* ctx->dec_codec_ctx->width
    height,         \* ctx->dec_codec_ctx->height
    capacity,       \* the size arena_init was called with
    ascii_width,    \* ctx->ascii_width
    ascii_height,   \* ctx->ascii_height
    fit_terminal,   \* main(): --fit-terminal was given
    enc_width,      \* ctx->enc_codec_ctx->width, as init_encoder set it (0: no encoder)
    enc_height,     \* ctx->enc_codec_ctx->height, as init_encoder set it
    unseen_resize,  \* a resize signal was delivered after the last TIOCGWINSZ query
    terminal_resized_flag, \* main.c: volatile sig_atomic_t, 0 or 1
    alloc_w,        \* ascii_width when the frame's buffers were requested
    alloc_h,        \* ascii_height when the frame's buffers were requested
    frame_arena,    \* ctx->frame_arena: [start, size, used]
    char_buffer,    \* ctx->char_buffer: an arena offset or NULL
    color_buffer,   \* ctx->color_buffer: an arena offset or NULL
    char_mem,       \* the bytes behind char_buffer, by cell index
    color_mem,      \* the RGB triples behind color_buffer, by cell index
    writers,        \* by cell index: the workers that stored the cell this frame
    worker_args,    \* ctx->worker_args: [start_row, end_row] per worker
    wstatus,        \* per worker: "idle", "running", "finished", "joined"
    wy,             \* per worker: y of process_slice_worker
    wx,             \* per worker: x of process_slice_worker
    pc,             \* where the main thread is
    si,             \* i of the pthread_create and pthread_join loops
    frame,          \* the decoded picture handed to the engine
    rgb_frame,      \* ctx->rgb_frame: the picture sws_scale last stored
    packets,        \* packets read so far
    alloc_log,      \* the arena_alloc calls since the last arena_reset
    resets,         \* arena_reset calls so far
    process_calls,  \* engine_process_frame_to_ascii calls so far
    prev_out,       \* the grid the previous call produced
    reported,       \* "Arena allocation failed" lines on stderr
    rendered,       \* frames handed to the terminal, the PNG writer or the encoder
    dropped,        \* frames the renderer gave up on (null scratch buffer)
    aborted,        \* the driver loop was left through break after a failed frame
    k_in,           \* the arguments of the routine applied on its own (KernelSpec)
    k_out,          \* what that routine returned or wrote
    k_pc            \* "idle", "ready" (arguments chosen) or "done" (routine applied)

vars == <<mode, num_threads, width, height, capacity, ascii_width, ascii_height,
          fit_terminal, enc_width, enc_height, unseen_resize,
          terminal_resized_flag, alloc_w, alloc_h, frame_arena,
          char_buffer, color_buffer, char_mem, color_mem, writers, worker_args,
          wstatus, wy, wx, pc, si, frame, rgb_frame, packets, alloc_log,
          resets, process_calls, prev_out, reported, rendered, dropped, aborted,
          k_in, k_out, k_pc>>

Workers == 0 .. (num_threads - 1)
NumCells == ascii_width * ascii_height
Cells == 0 .. (NumCells - 1)

\* ------------------------------------------------------------- engine_init
\* config.aspect_correction: 0.5f, or 1.0f when an output file is given.
AspectNum(m) == 1
AspectDen(m) == IF HasOutputFile(m) THEN 1 ELSE 2

\* (int)((float)ascii_width / ((float)width / height) * aspect_correction)
InitHeight(w, sw, sh, m) == (w * sh * AspectNum(m)) \div (sw * AspectDen(m))

\* fit_to_terminal: the grid <<new_width, new_height>> for a window of
\* cols x rows; corrected_video_aspect = (sw / sh) / aspect_correction.
fit_to_terminal(cols, rows, sw, sh, m) ==
    LET num == sw * AspectDen(m)     \* corrected_video_aspect = num / den
        den == sh * AspectNum(m)
    IN  IF cols * den > num * rows
        THEN <<((rows - 1) * num) \div den, rows - 1>>
        ELSE <<cols, (cols * den) \div num>>

NoOutput == [valid |-> FALSE, frame |-> "none", w |-> 0, h |-> 0,
             chars |-> << >>, colors |-> << >>, full |-> FALSE]

Init ==
    /\ mode \in Modes
    /\ num_threads \in 1 .. MaxThreads
    /\ \E sz \in SrcSizes : width = sz[1] /\ height = sz[2]
    /\ capacity \in ArenaCapacities
    \* --fit-terminal is drawn with the video paths: console playback reads
    \* the resize flag, transcoding has the encoder. engine_init derives the
    \* grid from config.output_width and, with a video output file, creates
    \* the encoder for it (init_encoder); main() then calls fit_to_terminal,
    \* which replaces the grid.
    /\ fit_terminal \in (IF IsVideo(mode) THEN BOOLEAN ELSE {FALSE})
    /\ terminal_resized_flag = 0
    /\ unseen_resize = FALSE
    /\ \E w0 \in 0 .. MaxWidth :
          LET h0 == InitHeight(w0, width, height, mode)
          IN  /\ enc_width = IF mode = "video_file" THEN w0 * GlyphPx ELSE 0
              /\ enc_height = IF mode = "video_file" THEN h0 * GlyphPx ELSE 0
              /\ IF fit_terminal
                 THEN \E ts \in TermSizes :
                         /\ ascii_width = fit_to_terminal(ts[1], ts[2], width, height, mode)[1]
                         /\ ascii_height = fit_to_terminal(ts[1], ts[2], width, height, mode)[2]
                 ELSE /\ ascii_width = w0
                      /\ ascii_height = h0
    /\ alloc_w = 0
    /\ alloc_h = 0
    /\ frame_arena = arena_init(capacity)
    /\ char_buffer = NULL
    /\ color_buffer = NULL
    /\ char_mem = << >>
    /\ color_mem = << >>
    /\ writers = << >>
    /\ worker_args = [i \in Workers |-> [start_row |-> 0, end_row |-> 0]]
    /\ wstatus = [i \in Workers |-> "idle"]
    /\ wy = [i \in Workers |-> 0]
    /\ wx = [i \in Workers |-> 0]
    /\ pc = IF IsVideo(mode) THEN "get_packet" ELSE "decode_image"
    /\ si = 0
    /\ frame = "none"
    /\ rgb_frame = "none"
    /\ packets = 0
    /\ alloc_log = << >>
    /\ resets = 0
    /\ process_calls = 0
    /\ prev_out = NoOutput
    /\ reported = 0
    /\ rendered = 0
    /\ dropped = 0
    /\ aborted = FALSE
    /\ k_in = [op |-> "none"]
    /\ k_out = [op |-> "none"]
    /\ k_pc = "idle"

\* The renderer main() calls after engine_process_frame_to_ascii.
RenderPc(m) ==
    CASE m = "video_file" -> "encode_alloc"
      [] m = "image_file" -> "image_calloc"
      [] OTHER -> "console_alloc"

\* Where main() goes after the renderer of a frame has returned.
NextFramePc(m) == IF IsVideo(m) THEN "get_packet" ELSE "cleanup"

encVars == <<enc_width, enc_height>>
cfgVars == <<mode, num_threads, width, height, capacity, ascii_width,
             ascii_height, fit_terminal>>
resizeVars == <<terminal_resized_flag, alloc_w, alloc_h>>
kernelVars == <<k_in, k_out, k_pc>>
memVars == <<char_mem, color_mem, writers>>
workerVars == <<worker_args, wstatus, wy, wx>>
countVars == <<reported, rendered, dropped, aborted>>

AnyStarted == \E i \in Workers : wstatus[i] # "idle"
AnyInFlight == \E i \in Workers : wstatus[i] \in {"running", "finished"}
AllWritten == \A c \in DOMAIN writers : writers[c] # {}

\* One arena_alloc call by the main thread, as the log records it.
AllocEntry(kind, size, who) ==
    LET r == arena_alloc(frame_arena, size)
    IN  [kind |-> kind, size |-> size, before |-> frame_arena.used,
         after |-> r.arena.used, p |-> r.p, by |-> who, at |-> pc,
         started |-> AnyStarted, inflight |-> AnyInFlight]

\* ------------------------------------------------------- main(): the loops
\* Image mode: engine_decode_video_packet hands out the loaded picture.
main_decode_image ==
    /\ pc = "decode_image"
    /\ \E f \in FrameIds : frame' = f
    /\ process_calls' = process_calls + 1
    /\ pc' = "process_reset"
    /\ UNCHANGED <<kernelVars, encVars, unseen_resize, cfgVars, resizeVars, frame_arena, alloc_log, char_buffer, color_buffer,
                   memVars, workerVars, si, rgb_frame, packets, resets,
                   prev_out, countVars>>

\* while (engine_get_next_packet(ctx, packet) >= 0): end of file, a video
\* packet, or a packet of another stream (remuxed or skipped, then unref'd).
engine_get_next_packet ==
    /\ pc = "get_packet"
    /\ \/ /\ pc' = "cleanup"
          /\ UNCHANGED packets
       \/ /\ packets < MaxPackets
          /\ packets' = packets + 1
          /\ IF HasOutputFile(mode)
             THEN \E kind \in {"video", "other"} :
                     pc' = IF kind = "video" THEN "decode" ELSE "get_packet"
             ELSE pc' = "check_resize"
    /\ UNCHANGED <<kernelVars, encVars, unseen_resize, cfgVars, resizeVars, frame_arena, alloc_log, char_buffer, color_buffer,
                   memVars, workerVars, si, frame, rgb_frame, resets,
                   process_calls, prev_out, countVars>>

\* A handler that refits the grid itself instead of raising the flag.
handle_resize_signal_Refit ==
    /\ fit_terminal
    /\ ~HasOutputFile(mode)
    /\ pc \notin {"done", "crashed"}
    /\ \E ts \in TermSizes :
          /\ ascii_width' = fit_to_terminal(ts[1], ts[2], width, height, mode)[1]
          /\ ascii_height' = fit_to_terminal(ts[1], ts[2], width, height, mode)[2]
    /\ UNCHANGED <<kernelVars, encVars, unseen_resize, mode, num_threads, width, height, capacity, fit_terminal,
                   resizeVars, frame_arena, alloc_log, char_buffer,
                   color_buffer, memVars, workerVars, pc, si, frame, rgb_frame,
                   packets, resets, process_calls, prev_out, countVars>>

\* SIGWINCH, delivered at any moment once main() has installed the handler.
handle_resize_signal ==
    /\ fit_terminal
    /\ ~HasOutputFile(mode)
    /\ pc \notin {"done", "crashed"}
    /\ terminal_resized_flag' = 1
    /\ unseen_resize' = TRUE
    /\ UNCHANGED <<kernelVars, encVars, cfgVars, alloc_w, alloc_h, frame_arena, alloc_log,
                   char_buffer, color_buffer, memVars, workerVars, pc, si,
                   frame, rgb_frame, packets, resets, process_calls, prev_out,
                   countVars>>

\* Top of the playback loop body, line 206: the flag is read. If it is
\* clear the packet is dispatched on its stream index.
main_check_resize ==
    /\ pc = "check_resize"
    /\ IF terminal_resized_flag = 1
       THEN pc' = "fit_to_terminal"
       ELSE \E kind \in {"video", "other"} :
               pc' = IF kind = "video" THEN "decode" ELSE "get_packet"
    /\ UNCHANGED <<kernelVars, encVars, unseen_resize, cfgVars, resizeVars,
                   frame_arena, alloc_log, char_buffer, color_buffer, memVars,
                   workerVars, si, frame, rgb_frame, packets, resets,
                   process_calls, prev_out, countVars>>

\* Lines 207-208: the screen is cleared and fit_to_terminal queries the
\* window size (TIOCGWINSZ) and stores the new grid; a failed ioctl leaves
\* the grid as it is.
main_fit_to_terminal ==
    /\ pc = "fit_to_terminal"
    /\ \/ \E ts \in TermSizes :
            /\ ascii_width' = fit_to_terminal(ts[1], ts[2], width, height, mode)[1]
            /\ ascii_height' = fit_to_terminal(ts[1], ts[2], width, height, mode)[2]
       \/ UNCHANGED <<ascii_width, ascii_height>>
    /\ unseen_resize' = FALSE
    /\ pc' = "clear_flag"
    /\ UNCHANGED <<kernelVars, encVars, mode, num_threads, width, height,
                   capacity, fit_terminal, resizeVars, frame_arena, alloc_log,
                   char_buffer, color_buffer, memVars, workerVars, si, frame,
                   rgb_frame, packets, resets, process_calls, prev_out,
                   countVars>>

\* Line 209: terminal_resized_flag = 0; then the packet is dispatched.
main_clear_flag ==
    /\ pc = "clear_flag"
    /\ terminal_resized_flag' = 0
    /\ \E kind \in {"video", "other"} :
          pc' = IF kind = "video" THEN "decode" ELSE "get_packet"
    /\ UNCHANGED <<kernelVars, encVars, unseen_resize, cfgVars, alloc_w,
                   alloc_h, frame_arena, alloc_log, char_buffer, color_buffer,
                   memVars, workerVars, si, frame, rgb_frame, packets, resets,
                   process_calls, prev_out, countVars>>

\* engine_decode_video_packet: 0 with a frame, or an error (EAGAIN ...).
engine_decode_video_packet ==
    /\ pc = "decode"
    /\ \/ /\ \E f \in FrameIds : frame' = f
          /\ process_calls' = process_calls + 1
          /\ pc' = "process_reset"
       \/ /\ pc' = "get_packet"
          /\ UNCHANGED <<frame, process_calls>>
    /\ UNCHANGED <<kernelVars, encVars, unseen_resize, cfgVars, resizeVars, frame_arena, alloc_log, char_buffer, color_buffer,
                   memVars, workerVars, si, rgb_frame, packets, resets,
                   prev_out, countVars>>

\* ------------------------------------------- engine_process_frame_to_ascii
\* The grid the call now starting leaves behind, kept for comparison.
Snapshot ==
    IF char_buffer # NULL /\ color_buffer # NULL
    THEN [valid |-> TRUE, frame |-> rgb_frame, w |-> alloc_w,
          h |-> alloc_h, chars |-> char_mem, colors |-> color_mem,
          full |-> AllWritten]
    ELSE NoOutput

process_reset ==
    /\ pc = "process_reset"
    /\ frame_arena' = arena_reset(frame_arena)
    /\ resets' = resets + 1
    /\ alloc_log' = << >>
    /\ prev_out' = Snapshot
    /\ wstatus' = [i \in Workers |-> "idle"]
    /\ pc' = "process_alloc_char"
    /\ UNCHANGED <<kernelVars, encVars, unseen_resize, cfgVars, resizeVars, char_buffer, color_buffer, memVars, worker_args,
                   wy, wx, si, frame, rgb_frame, packets, process_calls,
                   countVars>>

process_alloc_char ==
    /\ pc = "process_alloc_char"
    /\ LET r == arena_alloc(frame_arena, NumCells)
       IN  /\ frame_arena' = r.arena
           /\ alloc_log' = Append(alloc_log, AllocEntry("char", NumCells, "main"))
           /\ char_buffer' = r.p
           /\ char_mem' = IF r.p = NULL THEN << >> ELSE [c \in Cells |-> 0]
    /\ writers' = [c \in Cells |-> {}]
    /\ alloc_w' = ascii_width
    /\ alloc_h' = ascii_height
    /\ pc' = "process_alloc_color"
    /\ UNCHANGED <<kernelVars, encVars, unseen_resize, cfgVars, terminal_resized_flag, color_buffer, color_mem, workerVars, si, frame,
                   rgb_frame, packets, resets, process_calls, prev_out,
                   countVars>>

process_alloc_color ==
    /\ pc = "process_alloc_color"
    /\ LET r == arena_alloc(frame_arena, NumCells * 3)
       IN  /\ frame_arena' = r.arena
           /\ alloc_log' = Append(alloc_log,
                                  AllocEntry("color", NumCells * 3, "main"))
           /\ color_buffer' = r.p
           /\ color_mem' = IF r.p = NULL THEN << >>
                           ELSE [c \in Cells |-> <<0, 0, 0>>]
    /\ pc' = "process_check"
    /\ UNCHANGED <<kernelVars, encVars, unseen_resize, cfgVars, resizeVars, char_buffer, char_mem, writers, workerVars, si,
                   frame, rgb_frame, packets, resets, process_calls, prev_out,
                   countVars>>

\* The null check with the colour buffer forgotten.
AllocFailed_CharOnly(cb, colb) == cb = NULL

\* if (!ctx->char_buffer || !ctx->color_buffer)
AllocFailed(cb, colb) == cb = NULL \/ colb = NULL

\* The null check; on success sws_scale fills ctx->rgb_frame.
process_check ==
    /\ pc = "process_check"
    /\ IF AllocFailed(char_buffer, color_buffer)
       THEN /\ reported' = reported + 1
            /\ pc' = RenderPc(mode)
            /\ UNCHANGED <<rgb_frame, si>>
       ELSE /\ rgb_frame' = frame
            /\ si' = 0
            /\ pc' = "process_spawn"
            /\ UNCHANGED reported
    /\ UNCHANGED <<kernelVars, encVars, unseen_resize, cfgVars, resizeVars, frame_arena, alloc_log, char_buffer, color_buffer,
                   memVars, workerVars, frame, packets, resets, process_calls,
                   prev_out, rendered, dropped, aborted>>

rows_per_thread(h, n) == h \div n
BandStart(i, h, n) == i * rows_per_thread(h, n)
\* Band ends without the last band absorbing the remainder.
BandEnd_NoRemainder(i, h, n) == (i + 1) * rows_per_thread(h, n)
\* Band ends with every band running to the last row.
BandEnd_WholeGrid(i, h, n) == h
BandEnd(i, h, n) == IF i = n - 1 THEN h ELSE (i + 1) * rows_per_thread(h, n)

\* One iteration of the pthread_create loop: fill worker_args[i], start worker i.
process_spawn ==
    /\ pc = "process_spawn"
    /\ si < num_threads
    /\ worker_args' = [worker_args EXCEPT ![si] =
            [start_row |-> BandStart(si, ascii_height, num_threads),
             end_row |-> BandEnd(si, ascii_height, num_threads)]]
    /\ wstatus' = [wstatus EXCEPT ![si] = "running"]
    /\ wy' = [wy EXCEPT ![si] = BandStart(si, ascii_height, num_threads)]
    /\ wx' = [wx EXCEPT ![si] = 0]
    /\ IF si + 1 < num_threads
       THEN si' = si + 1 /\ pc' = pc
       ELSE si' = 0 /\ pc' = "process_join"
    /\ UNCHANGED <<kernelVars, encVars, unseen_resize, cfgVars, resizeVars, frame_arena, alloc_log, char_buffer, color_buffer,
                   memVars, frame, rgb_frame, packets, resets, process_calls,
                   prev_out, countVars>>

\* One iteration of the pthread_join loop: blocks until worker i has returned.
process_join ==
    /\ pc = "process_join"
    /\ wstatus[si] = "finished"
    /\ wstatus' = [wstatus EXCEPT ![si] = "joined"]
    /\ IF si + 1 < num_threads
       THEN si' = si + 1 /\ pc' = pc
       ELSE si' = 0 /\ pc' = RenderPc(mode)
    /\ UNCHANGED <<kernelVars, encVars, unseen_resize, cfgVars, resizeVars, frame_arena, alloc_log, char_buffer, color_buffer,
                   memVars, worker_args, wy, wx, frame, rgb_frame, packets,
                   resets, process_calls, prev_out, countVars>>

\* ---------------------------------------------------- process_slice_worker
\* What a worker stores into cell (x, y): it reads the scaled picture, the
\* grid dimensions and the lookup tables, and nothing another worker writes.
\* A worker that counts the rows of the picture from the top of its band.
StoredChar_BandRelative(x, y) ==
    LET i == CHOOSE j \in Workers :
                 worker_args[j].start_row <= y /\ y < worker_args[j].end_row
    IN  CellChar(rgb_frame, width, height, x, y - worker_args[i].start_row,
                 ascii_width, ascii_height)
StoredChar(x, y) == CellChar(rgb_frame, width, height, x, y, ascii_width, ascii_height)
\* A colour that diffuses from the cell above when that cell is already stored.
StoredColor_Diffused(x, y) ==
    IF y > 0 /\ writers[(y - 1) * ascii_width + x] = {}
    THEN <<0, 0, 0>>
    ELSE CellColor(rgb_frame, width, height, x, y, ascii_width,
                   ascii_height)
StoredColor(x, y) == CellColor(rgb_frame, width, height, x, y, ascii_width,
                   ascii_height)

\* A worker that takes a 16-byte scratch row from the arena at every step.
WorkerUnchanged_Alloc ==
    /\ frame_arena' = arena_alloc(frame_arena, ArenaAlign).arena
    /\ alloc_log' = IF Len(alloc_log) < 3
                    THEN Append(alloc_log, AllocEntry("scratch", ArenaAlign, "worker"))
                    ELSE alloc_log
    /\ UNCHANGED <<kernelVars, encVars, unseen_resize, cfgVars, resizeVars, char_buffer, color_buffer, worker_args, si, frame,
                   rgb_frame, packets, resets, process_calls, prev_out,
                   countVars>>

\* What a step of a worker leaves alone, the arena included.
WorkerUnchanged ==
    UNCHANGED <<kernelVars, encVars, unseen_resize, cfgVars, resizeVars, frame_arena, alloc_log, char_buffer, color_buffer,
                worker_args, si, frame, rgb_frame, packets, resets,
                process_calls, prev_out, countVars>>

\* A worker that first waits until the next worker has been joined.
process_slice_worker_WaitsForNext(i) ==
    /\ wstatus[i] = "running"
    /\ (i + 1 \in Workers) => wstatus[i + 1] = "joined"
    /\ wstatus' = [wstatus EXCEPT ![i] = "finished"]
    /\ UNCHANGED <<wy, wx, memVars, pc>>
    /\ WorkerUnchanged

\* One step of worker i: the next cell of its band, or its return.
process_slice_worker(i) ==
    /\ wstatus[i] = "running"
    /\ pc # "crashed"
    /\ LET a == worker_args[i]
           art_idx == wy[i] * ascii_width + wx[i]
       IN  IF wy[i] >= a.end_row
           THEN /\ wstatus' = [wstatus EXCEPT ![i] = "finished"]
                /\ UNCHANGED <<wy, wx, memVars, pc>>
           ELSE IF ascii_width <= 0
           THEN /\ wy' = [wy EXCEPT ![i] = wy[i] + 1]
                /\ UNCHANGED <<wstatus, wx, memVars, pc>>
           ELSE IF char_buffer = NULL \/ color_buffer = NULL
           THEN /\ pc' = "crashed"
                /\ UNCHANGED <<wstatus, wy, wx, memVars>>
           ELSE /\ char_mem' = [char_mem EXCEPT ![art_idx] = StoredChar(wx[i], wy[i])]
                /\ color_mem' = [color_mem EXCEPT ![art_idx] = StoredColor(wx[i], wy[i])]
                /\ writers' = [writers EXCEPT ![art_idx] = @ \cup {i}]
                /\ IF wx[i] + 1 < ascii_width
                   THEN wx' = [wx EXCEPT ![i] = wx[i] + 1] /\ wy' = wy
                   ELSE wx' = [wx EXCEPT ![i] = 0]
                        /\ wy' = [wy EXCEPT ![i] = wy[i] + 1]
                /\ UNCHANGED <<wstatus, pc>>
    /\ WorkerUnchanged

\* ------------------------------------------------ engine_render_to_console
ConsoleScratchSize == (ascii_width * ScratchPerCell + ScratchPerRow) * ascii_height

\* A renderer dereferences ctx->char_buffer and ctx->color_buffer per cell.
ReadsNull == NumCells > 0 /\ (char_buffer = NULL \/ color_buffer = NULL)

\* arena_alloc of the text blob; a null result returns without output.
engine_render_to_console_alloc ==
    /\ pc = "console_alloc"
    /\ LET r == arena_alloc(frame_arena, ConsoleScratchSize)
       IN  /\ frame_arena' = r.arena
           /\ alloc_log' = Append(alloc_log,
                                  AllocEntry("scratch", ConsoleScratchSize, "main"))
           /\ IF r.p = NULL
              THEN dropped' = dropped + 1 /\ pc' = NextFramePc(mode)
              ELSE dropped' = dropped /\ pc' = "console_emit"
    /\ UNCHANGED <<kernelVars, encVars, unseen_resize, cfgVars, resizeVars, char_buffer, color_buffer, memVars, workerVars, si,
                   frame, rgb_frame, packets, resets, process_calls, prev_out,
                   reported, rendered, aborted>>

\* The loops over the grid that build the blob, then the single printf.
engine_render_to_console_emit ==
    /\ pc = "console_emit"
    /\ IF ReadsNull
       THEN pc' = "crashed" /\ UNCHANGED rendered
       ELSE pc' = NextFramePc(mode) /\ rendered' = rendered + 1
    /\ UNCHANGED <<kernelVars, encVars, unseen_resize, cfgVars, resizeVars, frame_arena, alloc_log, char_buffer, color_buffer,
                   memVars, workerVars, si, frame, rgb_frame, packets, resets,
                   process_calls, prev_out, reported, dropped, aborted>>

\* ----------------------------------------------- engine_encode_video_frame
EncodeBufferSize == (ascii_width * GlyphPx) * (ascii_height * GlyphPx) * 3

\* arena_alloc of the RGB buffer; on null the call returns -1 and main()
\* leaves the transcoding loop through break.
engine_encode_video_frame_alloc ==
    /\ pc = "encode_alloc"
    /\ LET r == arena_alloc(frame_arena, EncodeBufferSize)
       IN  /\ frame_arena' = r.arena
           /\ alloc_log' = Append(alloc_log,
                                  AllocEntry("scratch", EncodeBufferSize, "main"))
           /\ IF r.p = NULL
              THEN dropped' = dropped + 1 /\ aborted' = TRUE /\ pc' = "cleanup"
              ELSE dropped' = dropped /\ aborted' = aborted /\ pc' = "encode_emit"
    /\ UNCHANGED <<kernelVars, encVars, unseen_resize, cfgVars, resizeVars, char_buffer, color_buffer, memVars, workerVars, si,
                   frame, rgb_frame, packets, resets, process_calls, prev_out,
                   reported, rendered>>

\* render_ascii_to_buffer over the grid, then the frame goes to the encoder.
engine_encode_video_frame_emit ==
    /\ pc = "encode_emit"
    /\ IF ReadsNull
       THEN pc' = "crashed" /\ UNCHANGED rendered
       ELSE pc' = NextFramePc(mode) /\ rendered' = rendered + 1
    /\ UNCHANGED <<kernelVars, encVars, unseen_resize, cfgVars, resizeVars, frame_arena, alloc_log, char_buffer, color_buffer,
                   memVars, workerVars, si, frame, rgb_frame, packets, resets,
                   process_calls, prev_out, reported, dropped, aborted>>

\* --------------------------------------------- engine_render_to_image_file
\* calloc of the pixel buffer (not from the arena); null returns -1.
engine_render_to_image_file_calloc ==
    /\ pc = "image_calloc"
    /\ \/ pc' = "image_emit"
       \/ pc' = "cleanup"
    /\ UNCHANGED <<kernelVars, encVars, unseen_resize, cfgVars, resizeVars, frame_arena, alloc_log, char_buffer, color_buffer,
                   memVars, workerVars, si, frame, rgb_frame, packets, resets,
                   process_calls, prev_out, countVars>>

\* render_ascii_to_buffer over the grid, then stbi_write_png.
engine_render_to_image_file_emit ==
    /\ pc = "image_emit"
    /\ IF ReadsNull
       THEN pc' = "crashed" /\ UNCHANGED rendered
       ELSE pc' = "cleanup" /\ rendered' = rendered + 1
    /\ UNCHANGED <<kernelVars, encVars, unseen_resize, cfgVars, resizeVars, frame_arena, alloc_log, char_buffer, color_buffer,
                   memVars, workerVars, si, frame, rgb_frame, packets, resets,
                   process_calls, prev_out, reported, dropped, aborted>>

\* ---------------------------------------------------------- engine_cleanup
engine_cleanup ==
    /\ pc = "cleanup"
    /\ frame_arena' = arena_free(frame_arena)
    /\ pc' = "done"
    /\ UNCHANGED <<kernelVars, encVars, unseen_resize, cfgVars, resizeVars, alloc_log, char_buffer, color_buffer, memVars,
                   workerVars, si, frame, rgb_frame, packets, resets,
                   process_calls, prev_out, countVars>>

Next ==
    \/ main_decode_image
    \/ engine_get_next_packet
    \/ handle_resize_signal
    \/ main_check_resize
    \/ main_fit_to_terminal
    \/ main_clear_flag
    \/ engine_decode_video_packet
    \/ process_reset
    \/ process_alloc_char
    \/ process_alloc_color
    \/ process_check
    \/ process_spawn
    \/ process_join
    \/ \E i \in Workers : process_slice_worker(i)
    \/ engine_render_to_console_alloc
    \/ engine_render_to_console_emit
    \/ engine_encode_video_frame_alloc
    \/ engine_encode_video_frame_emit
    \/ engine_render_to_image_file_calloc
    \/ engine_render_to_image_file_emit
    \/ engine_cleanup

Spec == Init /\ [][Next]_vars

\* The steps of the main thread (everything but the signal handler and the
\* workers).
MainThread ==
    \/ main_decode_image
    \/ engine_get_next_packet
    \/ main_check_resize
    \/ main_fit_to_terminal
    \/ main_clear_flag
    \/ engine_decode_video_packet
    \/ process_reset
    \/ process_alloc_char
    \/ process_alloc_color
    \/ process_check
    \/ process_spawn
    \/ process_join
    \/ engine_render_to_console_alloc
    \/ engine_render_to_console_emit
    \/ engine_encode_video_frame_alloc
    \/ engine_encode_video_frame_emit
    \/ engine_render_to_image_file_calloc
    \/ engine_render_to_image_file_emit
    \/ engine_cleanup

\* Fair scheduling of the threads: a thread that can take a step is not
\* passed over for ever.  Signals arrive or not.
FairSpec ==
    /\ Spec
    /\ WF_vars(MainThread)
    /\ \A i \in 0..(MaxThreads - 1) :
          WF_vars(i \in Workers /\ process_slice_worker(i))

\* ================================================ the routines on their own
\* KernelSpec applies one routine of the engine to arguments drawn from
\* bounded sets: Init chooses the routine (k_in.op) and its arguments, the
\* routine's action stores what it computes in k_out.  The driver and the
\* engine context stay in the state before engine_init.

\* Gradients (gx, gy): zero, values on both sides of the 0.4 and 1.0
\* thresholds and of the tan(67.5 deg) ratio, and the largest |gradient|.
GradValues == {-1020, -242, -241, -103, -100, 0, 100, 101, 103, 241, 242, 1020}
\* config.edge_strength in tenths (--edge 0, the default 0.4, --edge 1).
EdgeTenthsValues == {0, EdgeTenths, 10}
\* brightness_idx values: gamma_lut of luma 0, 128 and 255.
IdxValues == {0, 186, 255}

mainVars == <<mode, num_threads, width, height, capacity, ascii_width,
              ascii_height, fit_terminal, enc_width, enc_height,
              unseen_resize, terminal_resized_flag, alloc_w,
              alloc_h, frame_arena, char_buffer, color_buffer, char_mem,
              color_mem, writers, worker_args, wstatus, wy, wx, pc, si, frame,
              rgb_frame, packets, alloc_log, resets, process_calls, prev_out,
              reported, rendered, dropped, aborted>>

\* The context before engine_init: nothing allocated, no worker, no frame.
NoSession ==
    /\ mode = "image_console"
    /\ num_threads = 1
    /\ width = 0
    /\ height = 0
    /\ capacity = 0
    /\ ascii_width = 0
    /\ ascii_height = 0
    /\ fit_terminal = FALSE
    /\ enc_width = 0
    /\ enc_height = 0
    /\ unseen_resize = FALSE
    /\ terminal_resized_flag = 0
    /\ alloc_w = 0
    /\ alloc_h = 0
    /\ frame_arena = arena_free(arena_init(0))
    /\ char_buffer = NULL
    /\ color_buffer = NULL
    /\ char_mem = << >>
    /\ color_mem = << >>
    /\ writers = << >>
    /\ worker_args = << >>
    /\ wstatus = << >>
    /\ wy = << >>
    /\ wx = << >>
    /\ pc = "kernel"
    /\ si = 0
    /\ frame = "none"
    /\ rgb_frame = "none"
    /\ packets = 0
    /\ alloc_log = << >>
    /\ resets = 0
    /\ process_calls = 0
    /\ prev_out = NoOutput
    /\ reported = 0
    /\ rendered = 0
    /\ dropped = 0
    /\ aborted = FALSE

\* Arguments of the ramp selection of one cell.
RampInputs ==
    [op : {"ramp"}, gx : GradValues, gy : GradValues, t10 : EdgeTenthsValues,
     idx : IdxValues]

\* Largest source extent and largest grid extent of the cell computations.
MaxSource == 3
MaxGrid == 3
\* Positive values of config.edge_strength in tenths.
PositiveEdgeTenths == {EdgeTenths, 10}
KernelFrames == UniformFrames \union EdgeFrames
Offsets == {-1, 0, 1} \X {-1, 0, 1}

\* One cell (x, y) of a w x h grid over picture f of sw x sh pixels.
CellInputs ==
    {i \in [op : {"cell"}, f : KernelFrames, sw : 1..MaxSource,
            sh : 1..MaxSource, w : 1..MaxGrid, h : 1..MaxGrid,
            x : 0..(MaxGrid - 1), y : 0..(MaxGrid - 1),
            t10 : PositiveEdgeTenths] :
        i.x < i.w /\ i.y < i.h}

\* Colours, saturation factors (0, 0.5, 1, 2) and brightness factors
\* (0.5, 1, 2) of the colour adjustment.
AdjustColors ==
    {<<0, 0, 0>>, <<61, 61, 61>>, <<128, 128, 128>>, <<255, 255, 255>>,
     <<200, 100, 50>>, <<8, 80, 32>>, <<255, 0, 0>>, <<0, 0, 255>>}
SaturationTenths == {0, 5, 10, 20}
BrightnessTenths == {5, 10, 20}
AdjustInputs ==
    [op : {"adjust"}, p : AdjustColors, s10 : SaturationTenths,
     b10 : BrightnessTenths]

\* Grids of at most MaxGlyphCells cells; the character codes of '-', '@',
\* '|' and of vertical_ramp[1]; one colour per cell.
MaxGlyphCells == 2
GlyphCodes == {45, 64, 124, vertical_ramp[2]}
CellColors == <<(<<200, 100, 50>>), (<<0, 0, 255>>), (<<8, 80, 32>>), (<<255, 255, 255>>)>>
CompositeInputs ==
    {i \in [op : {"composite"}, w : 1..MaxGlyphCells, h : 1..MaxGlyphCells,
            chars : UNION {[1..n -> GlyphCodes] : n \in 1..MaxGlyphCells},
            s10 : {0, 10}, b10 : {10, 20}, stray : StrayRows] :
        /\ i.w * i.h <= MaxGlyphCells
        /\ Len(i.chars) = i.w * i.h}

\* Console grids up to MaxConsole x MaxConsole, a width or height of 0
\* included (nothing checks the geometry); characters '@' and
\* vertical_ramp[1]; the colour buffer holds mixed colours or white in
\* every cell, the colour with the longest escape sequence.
MaxConsole == 2
ConsoleChars == {64, vertical_ramp[2]}
WhiteCells == <<(<<255, 255, 255>>), (<<255, 255, 255>>), (<<255, 255, 255>>), (<<255, 255, 255>>)>>
ConsoleColor(idx) == k_in.colors[(idx % Len(k_in.colors)) + 1]
ConsoleInputs ==
    {i \in [op : {"console"}, w : 0..MaxConsole, h : 0..MaxConsole,
            chars : UNION {[1..n -> ConsoleChars] : n \in 0..(MaxConsole * MaxConsole)},
            colors : {CellColors, WhiteCells},
            use_color : BOOLEAN] :
        Len(i.chars) = i.w * i.h}

\* The scratch bytes touched once n bytes are stored at offset at.
Touched(high, at, n) == IF at + n > high THEN at + n ELSE high

KernelInit ==
    /\ NoSession
    /\ k_pc = "ready"
    /\ k_out = [op |-> "none"]
    /\ k_in \in RampInputs \union CellInputs \union AdjustInputs
                \union CompositeInputs \union ConsoleInputs

\* process_slice_worker, lines 442-466: ramp and glyph from the gradient.
kernel_select_ramp ==
    /\ k_pc = "ready"
    /\ k_in.op = "ramp"
    /\ LET ramp == SelectRampAt(k_in.gx, k_in.gy, k_in.t10)
       IN  k_out' = [op |-> "ramp", ramp |-> ramp,
                     selected_char |-> LutChar(ramp, k_in.idx)]
    /\ k_pc' = "done"
    /\ UNCHANGED <<mainVars, k_in>>

\* process_slice_worker, lines 410-473: one iteration of the inner loop.
kernel_cell ==
    /\ k_pc = "ready"
    /\ k_in.op = "cell"
    /\ LET f == k_in.f
           sw == k_in.sw
           sh == k_in.sh
           source_x == SourceCoord(k_in.x, k_in.w, sw)
           source_y == SourceCoord(k_in.y, k_in.h, sh)
           gx == Gx(f, sw, sh, source_x, source_y)
           gy == Gy(f, sw, sh, source_x, source_y)
           brightness_idx == BrightnessIdx(f, sw, sh, source_x, source_y)
           ramp == SelectRampAt(gx, gy, k_in.t10)
       IN  k_out' = [op |-> "cell",
                     source_x |-> source_x,
                     source_y |-> source_y,
                     window |-> [o \in Offsets |->
                                   WindowSample(sw, sh, source_x, source_y,
                                                o[1], o[2])],
                     gx |-> gx,
                     gy |-> gy,
                     brightness_idx |-> brightness_idx,
                     ramp |-> ramp,
                     selected_char |-> LutChar(ramp, brightness_idx),
                     color |-> CellColor(f, sw, sh, k_in.x, k_in.y, k_in.w,
                                         k_in.h)]
    /\ k_pc' = "done"
    /\ UNCHANGED <<mainVars, k_in>>

\* render_ascii_to_buffer, lines 523-547: the colour of one cell.
kernel_adjust ==
    /\ k_pc = "ready"
    /\ k_in.op = "adjust"
    /\ k_out' = [op |-> "adjust", color |-> Adjust(k_in.p, k_in.s10, k_in.b10)]
    /\ k_pc' = "done"
    /\ UNCHANGED <<mainVars, k_in>>

\* render_ascii_to_buffer, lines 512-563, on a grid of k_in.w x k_in.h cells.
kernel_composite ==
    /\ k_pc = "ready"
    /\ k_in.op = "composite"
    /\ k_out' = [op |-> "composite",
                 buffer |-> render_ascii_to_buffer(k_in.w, k_in.h, k_in.chars,
                                CellColors, k_in.s10, k_in.b10, k_in.stray),
                 stray_writes |-> StrayWrites(k_in.w, k_in.h, k_in.chars,
                                              k_in.stray)]
    /\ k_pc' = "done"
    /\ UNCHANGED <<mainVars, k_in>>

\* engine_render_to_console, lines 485-489: the scratch buffer is there and
\* buf_ptr is at its start; nothing has been handed to stdout.
console_begin ==
    /\ k_pc = "ready"
    /\ k_in.op = "console"
    /\ k_out' = [op |-> "console", blob |-> << >>, x |-> 0, y |-> 0,
                 writes |-> << >>,
                 size |-> (k_in.w * ScratchPerCell + ScratchPerRow) * k_in.h,
                 high |-> 0]
    /\ k_pc' = "console_loop"
    /\ UNCHANGED <<mainVars, k_in>>

\* Lines 491-501: one cell of the current row.
console_cell ==
    /\ k_pc = "console_loop"
    /\ k_out.y < k_in.h
    /\ k_out.x < k_in.w
    /\ LET idx == k_out.y * k_in.w + k_out.x
           bytes == ConsoleCellBytes(k_in.use_color, ConsoleColor(idx),
                                     k_in.chars[idx + 1])
           \* sprintf stores a NUL behind its output, the plain store none
           stored == Len(bytes) + (IF k_in.use_color THEN 1 ELSE 0)
       IN  k_out' = [k_out EXCEPT
                        !.blob = @ \o bytes,
                        !.high = Touched(@, Len(k_out.blob), stored),
                        !.x = @ + 1]
    /\ UNCHANGED <<mainVars, k_in, k_pc>>

\* A row end that hands the row to stdout at once.
console_row_end_Flushing ==
    /\ k_pc = "console_loop"
    /\ k_out.y < k_in.h
    /\ k_out.x = k_in.w
    /\ k_out' = [k_out EXCEPT !.writes = Append(@, k_out.blob \o <<10>>),
                              !.blob = << >>, !.x = 0, !.y = @ + 1]
    /\ UNCHANGED <<mainVars, k_in, k_pc>>

\* Line 502: the row terminator.
console_row_end ==
    /\ k_pc = "console_loop"
    /\ k_out.y < k_in.h
    /\ k_out.x = k_in.w
    /\ k_out' = [k_out EXCEPT !.blob = @ \o <<10>>,
                              !.high = Touched(@, Len(k_out.blob), 1),
                              !.x = 0, !.y = @ + 1]
    /\ UNCHANGED <<mainVars, k_in, k_pc>>

\* Lines 504-509: NUL behind the last byte, then one printf of the home
\* escape and the string up to its NUL, then fflush.
console_print ==
    /\ k_pc = "console_loop"
    /\ k_out.y = k_in.h
    /\ k_out' = [k_out EXCEPT !.writes = Append(@, CursorHome \o k_out.blob),
                              !.high = Touched(@, Len(k_out.blob), 1)]
    /\ k_pc' = "done"
    /\ UNCHANGED <<mainVars, k_in>>

KernelNext ==
    \/ kernel_select_ramp
    \/ kernel_cell
    \/ kernel_adjust
    \/ kernel_composite
    \/ console_begin
    \/ console_cell
    \/ console_row_end
    \/ console_print

KernelSpec == KernelInit /\ [][KernelNext]_vars

\* ================================================================== claims
ProcessPcs == {"process_reset", "process_alloc_char", "process_alloc_color",
               "process_check", "process_spawn", "process_join"}
EmitPcs == {"console_emit", "encode_emit", "image_emit"}

\* engine_process_frame_to_ascii has been called and has returned.
Returned == process_calls > 0 /\ pc \notin ProcessPcs

\* The row of a cell index.
RowOf(c) == c \div alloc_w

InBand(i, y) == worker_args[i].start_row <= y /\ y < worker_args[i].end_row

\* The join barrier itself: once the call has returned no worker of the
\* frame is running or waiting to be joined.
BarrierHolds == Returned => ~AnyInFlight

\* C1: whenever a renderer or the encoder is about to read the grid (the
\* loops of engine_render_to_console, render_ascii_to_buffer), no worker of
\* the frame is still running and every cell it reads has been written for
\* this frame.
C1_RenderReadsWrittenCells ==
    pc \in EmitPcs => (~AnyInFlight /\ AllWritten)

\* C2: once the orchestrator has built all N bands for height H, band i < N-1
\* is [i*floor(H/N), (i+1)*floor(H/N)), the last band is
\* [(N-1)*floor(H/N), H), consecutive bands meet, and every row of [0, H)
\* lies in exactly one band.
C2_PartitionComplete ==
    pc = "process_join" =>
        LET H == ascii_height
            N == num_threads
            q == CHOOSE k \in 0 .. H : k * N <= H /\ H < (k + 1) * N
        IN  /\ \A i \in Workers : i < N - 1 =>
                  worker_args[i] = [start_row |-> i * q, end_row |-> (i + 1) * q]
            /\ worker_args[N - 1] = [start_row |-> (N - 1) * q, end_row |-> H]
            /\ \A i \in Workers : worker_args[i].start_row <= worker_args[i].end_row
            /\ \A i \in Workers : i < N - 1 =>
                  worker_args[i].end_row = worker_args[i + 1].start_row
            /\ \A y \in 0 .. (H - 1) :
                  Cardinality({i \in Workers : InBand(i, y)}) = 1

C2_Witness ==
    /\ pc = "process_join"
    /\ num_threads > 1
    /\ ascii_height > num_threads
    /\ ascii_height % num_threads # 0

\* C3: in every state each cell of the grid has been stored by at most one
\* worker, the one whose band holds the cell's row; and a step of a worker
\* changes nothing but the two output buffers and its own loop counters
\* (picture, configuration, arena and band descriptors stay as they are).
C3_NoWriteRace ==
    /\ [](\A c \in DOMAIN writers :
            /\ Cardinality(writers[c]) <= 1
            /\ \A i \in writers[c] : InBand(i, RowOf(c)))
    /\ [][(\E i \in Workers : process_slice_worker(i)) =>
            UNCHANGED <<kernelVars, cfgVars, resizeVars, frame_arena, alloc_log, char_buffer,
                        color_buffer, worker_args, frame, rgb_frame>>]_vars

C3_Witness ==
    /\ num_threads > 1
    /\ wstatus[0] = "running"
    /\ wstatus[1] = "running"
    /\ \E c, d \in DOMAIN writers : writers[c] = {0} /\ writers[d] = {1}

\* C4: when a call has returned a grid for the same picture and the same
\* grid dimensions as the call before it (configuration and worker count
\* never change within a run), both grids are fully written and equal byte
\* for byte, whatever the interleaving of the workers was in either call.
C4_Deterministic ==
    (/\ Returned
     /\ ~AllocFailed(char_buffer, color_buffer)
     /\ prev_out.valid
     /\ prev_out.frame = rgb_frame
     /\ prev_out.w = alloc_w
     /\ prev_out.h = alloc_h)
    => /\ prev_out.full
       /\ AllWritten
       /\ char_mem = prev_out.chars
       /\ color_mem = prev_out.colors

C4_Witness ==
    /\ Returned
    /\ prev_out.valid
    /\ prev_out.frame = "diag"
    /\ rgb_frame = "diag"
    /\ num_threads > 1
    /\ ascii_height > 1
    /\ AllWritten

\* C5: past the null check of a call, if either frame buffer is null then no
\* worker was launched, no cell was written and the failure was reported;
\* otherwise, once the call has returned, every cell of the grid is written.
C5_AllOrNothing ==
    (process_calls > 0 /\ pc \notin {"process_reset", "process_alloc_char",
                                     "process_alloc_color", "process_check"})
    => IF AllocFailed(char_buffer, color_buffer)
       THEN /\ \A i \in Workers : wstatus[i] = "idle"
            /\ \A c \in DOMAIN writers : writers[c] = {}
            /\ reported > 0
       ELSE Returned => AllWritten

C5_Witness ==
    /\ Returned
    /\ NumCells > 0
    /\ char_buffer # NULL
    /\ color_buffer = NULL

\* C6: a frame whose buffers the arena cannot provide is dropped: the
\* process never crashes on a null buffer and the driver loop is never left
\* because of it.
C6_FrameDropRecoverable == pc # "crashed" /\ ~aborted

\* size rounded up to the next multiple of 16, stated without the bit trick.
RoundedUp(size) ==
    CHOOSE m \in size .. (size + 15) : m % 16 = 0

\* C7: every arena_alloc call since the last reset, with r = its size rounded
\* up to a multiple of 16: if used + r <= capacity it returned the old mark
\* and advanced the mark by exactly r, otherwise it returned null and left
\* the mark where it was; each call starts from the mark the call before it
\* left, and the frame buffers handed out earlier stay where they were.
C7_ArenaAlloc ==
    /\ \A k \in DOMAIN alloc_log :
          LET e == alloc_log[k]
              r == RoundedUp(e.size)
          IN  /\ IF e.before + r <= capacity
                 THEN e.p = e.before /\ e.after = e.before + r
                 ELSE e.p = NULL /\ e.after = e.before
              /\ k > 1 => e.before = alloc_log[k - 1].after
    /\ (Len(alloc_log) >= 1 /\ pc # "process_alloc_char")
          => char_buffer = alloc_log[1].p
    /\ (Len(alloc_log) >= 2 /\ pc # "process_alloc_color")
          => color_buffer = alloc_log[2].p
    /\ (Len(alloc_log) >= 1 /\ pc # "done")
          => frame_arena.used = alloc_log[Len(alloc_log)].after

C7_Witness ==
    /\ Len(alloc_log) = 3
    /\ alloc_log[1].p # NULL
    /\ alloc_log[2].p # NULL
    /\ alloc_log[2].before > 0
    /\ alloc_log[2].size % 16 # 0
    /\ alloc_log[3].p = NULL
    /\ frame_arena.used = alloc_log[2].after

RECURSIVE ReplayFrom(_, _, _)
\* The pointers arena_alloc returns for the sizes of log, from arena a on.
ReplayFrom(a, log, k) ==
    IF k > Len(log) THEN << >>
    ELSE LET r == arena_alloc(a, log[k].size)
         IN  <<r.p>> \o ReplayFrom(r.arena, log, k + 1)

\* C8: right after arena_reset the mark is zero with capacity and region as
\* arena_init left them; the allocations since the last reset return the
\* offsets a freshly initialised arena returns for the same sizes; the
\* region is gone only once engine_cleanup has run; and the number of resets
\* equals the number of engine_process_frame_to_ascii calls that have got
\* past their first statement.
C8_ArenaReset ==
    /\ pc = "process_alloc_char" => frame_arena = arena_init(capacity)
    /\ [k \in DOMAIN alloc_log |-> alloc_log[k].p]
          = ReplayFrom(arena_init(capacity), alloc_log, 1)
    /\ pc # "done" => (frame_arena.start = 0 /\ frame_arena.size = capacity)
    /\ pc = "done" => frame_arena = [start |-> NULL, size |-> 0, used |-> 0]
    /\ resets = process_calls - (IF pc = "process_reset" THEN 1 ELSE 0)

C8_Witness ==
    /\ resets = 2
    /\ Len(alloc_log) = 3
    /\ alloc_log[3].p # NULL
    /\ alloc_log[3].p > 0
    /\ prev_out.valid

\* C9: no step taken while a worker of the frame has been created and not
\* yet joined changes the arena, and no step of a worker ever does.
C9_ArenaOnlyOrchestrator ==
    [][/\ AnyInFlight => frame_arena' = frame_arena
       /\ (\E i \in Workers : process_slice_worker(i))
             => (frame_arena' = frame_arena /\ alloc_log' = alloc_log)]_vars

C9_Witness ==
    /\ num_threads > 1
    /\ pc = "process_join"
    /\ si = 1
    /\ wstatus[1] = "running"
    /\ frame_arena.used > 0
    /\ \E c \in DOMAIN writers : writers[c] # {}

\* C10 as stated: every arena allocation of a frame (frame buffers and
\* scratch buffers) is made by the main thread before any worker of the
\* frame has been started.
C10_AllAllocBeforeWorkers ==
    \A k \in DOMAIN alloc_log :
        alloc_log[k].by = "main" /\ ~alloc_log[k].started

\* C10 amended: every arena allocation of a frame is made by the main thread
\* while no worker of the frame is created-and-unjoined: the character and
\* colour buffers before any worker of the frame has been started, the
\* renderer's or encoder's scratch buffer after the call has returned.
C10_AllocOutsideWorkerLifetime ==
    /\ \A k \in DOMAIN alloc_log :
          LET e == alloc_log[k]
          IN  /\ e.by = "main"
              /\ ~e.inflight
              /\ (e.kind \in {"char", "color"}) <=> (k <= 2)
              /\ e.kind \in {"char", "color"} =>
                    (~e.started /\ e.at \in {"process_alloc_char",
                                              "process_alloc_color"})
              /\ e.kind = "scratch" => e.at \in {"console_alloc", "encode_alloc"}
    /\ Len(alloc_log) <= 3

C10_Witness ==
    /\ Len(alloc_log) = 3
    /\ alloc_log[3].kind = "scratch"
    /\ alloc_log[3].started
    /\ alloc_log[3].p # NULL
    /\ num_threads > 1

\* C11 as stated: whenever engine_process_frame_to_ascii partitions the rows
\* and launches or joins workers, the grid width and height are both
\* strictly positive (a zero dimension has been rejected before).
C11_PositiveGeometryAtPartition ==
    pc \in {"process_spawn", "process_join"} =>
        (ascii_width > 0 /\ ascii_height > 0)

\* The pcs at which the buffers of the current frame are allocated, filled
\* or consumed.
FramePcs == {"process_alloc_color", "process_check", "process_spawn",
             "process_join", "console_alloc", "console_emit", "encode_alloc",
             "encode_emit", "image_calloc", "image_emit"}

\* C12: a resize signal may arrive in any state, but the grid dimensions
\* change only in the step at the top of the playback loop, when no worker
\* is running or unjoined; and from the allocation of a frame's buffers to
\* the end of its rendering the dimensions are those the buffers were
\* allocated with.
C12_ResizeAtFrameBoundary ==
    /\ [](pc \in FramePcs => (ascii_width = alloc_w /\ ascii_height = alloc_h))
    /\ [](AnyInFlight => (ascii_width = alloc_w /\ ascii_height = alloc_h))
    /\ [][(ascii_width' # ascii_width \/ ascii_height' # ascii_height)
            => (pc = "fit_to_terminal" /\ ~AnyInFlight)]_vars

C12_Witness ==
    /\ pc = "console_emit"
    /\ process_calls = 2
    /\ terminal_resized_flag = 1
    /\ prev_out.valid
    /\ <<prev_out.w, prev_out.h>> # <<alloc_w, alloc_h>>
    /\ alloc_w * alloc_h > 0
    /\ AllWritten

\* ------------------------------------------------------------------- C13
\* |a| > |b| * tan(67.5 deg), with the tangent as the ratio DThresh / DUnit.
Steeper(a, b) == Abs(a) * DUnit > Abs(b) * DThresh

\* C13: for gradient (gx, gy) and threshold t the flat ramp is selected iff
\* (gx^2 + gy^2) / 255^2 < t^2; otherwise vertical if |gy| > |gx| D, else
\* horizontal if |gx| > |gy| D, else diagonal-1 if gx gy > 0 and diagonal-2
\* if gx gy <= 0; the glyph is the entry of the selected ramp's table, so a
\* cell below the threshold gets its glyph from the flat table.
C13_RampSelection ==
    (k_pc = "done" /\ k_in.op = "ramp") =>
        LET gx == k_in.gx
            gy == k_in.gy
            flat == 100 * (gx * gx + gy * gy) < (k_in.t10 * 255) * (k_in.t10 * 255)
            r == k_out.ramp
        IN  /\ (r = "flat") <=> flat
            /\ (r = "vert") <=> (~flat /\ Steeper(gy, gx))
            /\ (r = "horz") <=> (~flat /\ ~Steeper(gy, gx) /\ Steeper(gx, gy))
            /\ (r = "diag1") <=> (~flat /\ ~Steeper(gy, gx) /\ ~Steeper(gx, gy)
                                    /\ gx * gy > 0)
            /\ (r = "diag2") <=> (~flat /\ ~Steeper(gy, gx) /\ ~Steeper(gx, gy)
                                    /\ gx * gy <= 0)
            /\ flat => k_out.selected_char = char_lut_flat(k_in.idx)
            /\ k_out.selected_char =
                  (CASE r = "flat" -> char_lut_flat(k_in.idx)
                     [] r = "vert" -> char_lut_vert(k_in.idx)
                     [] r = "horz" -> char_lut_horz(k_in.idx)
                     [] r = "diag1" -> char_lut_diag1(k_in.idx)
                     [] r = "diag2" -> char_lut_diag2(k_in.idx))

\* An edge cell on the diagonal-2 side of the sign test: gx gy = 0 with
\* neither gradient component dominating (threshold 0, zero gradient).
C13_Witness ==
    /\ k_pc = "done"
    /\ k_in.op = "ramp"
    /\ k_in.gx * k_in.gy = 0
    /\ k_out.ramp = "diag2"

\* ------------------------------------------------------------------- C14
\* The window of the computed cell holds samples of both halves of "vsplit".
StraddlesBoundary ==
    /\ \E o \in Offsets : k_out.window[o][1] < k_in.sw \div 2
    /\ \E o \in Offsets : k_out.window[o][1] >= k_in.sw \div 2

\* C14: on a picture with a black left half and a white right half, a cell
\* whose 3x3 window straddles the boundary column and whose gradient
\* exceeds the threshold gets its glyph from the vertical ramp.
C14_VerticalBoundaryVerticalRamp ==
    (k_pc = "done" /\ k_in.op = "cell" /\ k_in.f = "vsplit"
       /\ StraddlesBoundary
       /\ ~BelowThresholdAt(k_out.gx, k_out.gy, k_in.t10)) =>
        /\ k_out.ramp = "vert"
        /\ k_out.selected_char = char_lut_vert(k_out.brightness_idx)

Nearest(v, n) ==
    CHOOSE c \in 0..(n - 1) : \A d \in 0..(n - 1) : Abs(c - v) <= Abs(d - v)

RampOn(g) ==
    SelectRampAt(Gx(g, k_in.sw, k_in.sh, k_out.source_x, k_out.source_y),
                 Gy(g, k_in.sw, k_in.sh, k_out.source_x, k_out.source_y),
                 k_in.t10)

C19_SaturationIdentityAndGray ==
    (k_pc = "done" /\ k_in.op = "adjust" /\ k_in.b10 = 10) =>
        /\ \A i \in 1..3 : k_out.color[i] \in 0..255
        /\ k_in.s10 = 10 => k_out.color = k_in.p
        /\ k_in.s10 = 0 =>
              \A i \in 1..3 :
                  Abs(1000 * k_out.color[i] - Luma1000(k_in.p)) < 1000

\* ------------------------------------------------------------------- C18
\* C18: in the (8 grid_w) x (8 grid_h) pixel buffer, pixel (px, py) is the
\* saturation-then-brightness adjusted colour of cell (px div 8, py div 8)
\* when the corresponding bit of that cell's glyph bitmap in the font is lit
\* and black otherwise; no cell writes outside its block or the buffer.
C18_GlyphCompositing ==
    (k_pc = "done" /\ k_in.op = "composite") =>
        /\ k_out.stray_writes = {}
        /\ \A px \in 0..(k_in.w * GlyphPx - 1), py \in 0..(k_in.h * GlyphPx - 1) :
              LET c == (py \div GlyphPx) * k_in.w + (px \div GlyphPx)
                  code == k_in.chars[c + 1]
              IN  /\ code \in DOMAIN FontRows
                  /\ k_out.buffer[py * (k_in.w * GlyphPx) + px] =
                        IF Lit(FontRows[code], px % GlyphPx, py % GlyphPx)
                        THEN Brighten(Saturate(CellColors[c + 1], k_in.s10),
                                      k_in.b10)
                        ELSE <<0, 0, 0>>

\* ------------------------------------------------------------------- C20
\* The value of a sequence of decimal digits.
RECURSIVE ParseDecimal(_)
ParseDecimal(d) ==
    IF d = << >> THEN 0
    ELSE 10 * ParseDecimal(SubSeq(d, 1, Len(d) - 1)) + (d[Len(d)] - 48)

\* The cell at (x, y) as the claim words it: the raw character, or the
\* truecolor escape carrying the cell's RGB triple and then the character.
ClaimedCell(x, y) ==
    LET idx == y * k_in.w + x
        ch == k_in.chars[idx + 1]
        rgb == ConsoleColor(idx)
    IN  IF k_in.use_color
        THEN <<27>> \o <<91, 51, 56, 59, 50, 59>> \o Decimal(rgb[1]) \o <<59>>
                 \o Decimal(rgb[2]) \o <<59>> \o Decimal(rgb[3]) \o <<109>>
                 \o <<ch>>
        ELSE <<ch>>

RECURSIVE ClaimedRow(_, _)
ClaimedRow(n, y) ==
    IF n = 0 THEN << >> ELSE ClaimedRow(n - 1, y) \o ClaimedCell(n - 1, y)

RECURSIVE ClaimedRows(_)
ClaimedRows(n) ==
    IF n = 0 THEN << >>
    ELSE ClaimedRows(n - 1) \o ClaimedRow(k_in.w, n - 1) \o <<10>>

\* C20: a rendered frame is emitted by a single write: the cursor-home
\* escape, then for every row in order its cells in column order (the raw
\* character, or ESC[38;2;R;G;Bm with the cell's own RGB triple and then the
\* character) and one row terminator; nothing is written before the whole
\* blob is built.
C20_ConsoleSingleWrite ==
    k_in.op = "console" /\ k_pc # "ready" =>
        /\ k_pc # "done" => k_out.writes = << >>
        /\ k_pc = "done" =>
              /\ k_out.y = k_in.h
              /\ k_out.writes = <<CursorHome \o ClaimedRows(k_in.h)>>
              /\ k_in.use_color =>
                    \A idx \in 0..(k_in.w * k_in.h - 1), i \in 1..3 :
                        ParseDecimal(Decimal(ConsoleColor(idx)[i]))
                            = ConsoleColor(idx)[i]

\* A coloured 2 x 2 frame has been written.
C20_Witness ==
    /\ k_pc = "done"
    /\ k_in.op = "console"
    /\ k_in.use_color
    /\ k_in.w = 2 /\ k_in.h = 2
    /\ Len(k_out.writes) = 1
    /\ Len(k_out.writes[1]) > Len(CursorHome) + k_in.w * k_in.h

\* ------------------------------------------------------------------- C25
\* The index init_luts uses for brightness level i of a ramp of len entries.
RampIndex(len, i) == (i * (len - 1)) \div 255

\* C25: every entry of the five character tables is taken from its ramp at
\* an index within 0..(ramp_length - 1) and is a 7-bit ASCII code, and so
\* is every character a worker stores: the glyph lookup by character code
\* stays inside the font table.
C25_LutEntriesAscii ==
    /\ \A i \in 0..255 :
          /\ RampIndex(flat_ramp_len, i) \in 0..(flat_ramp_len - 1)
          /\ RampIndex(edge_ramp_len, i) \in 0..(edge_ramp_len - 1)
          /\ char_lut_flat(i) = flat_ramp[RampIndex(flat_ramp_len, i) + 1]
          /\ char_lut_vert(i) = vertical_ramp[RampIndex(edge_ramp_len, i) + 1]
          /\ \A r \in {"flat", "vert", "horz", "diag1", "diag2"} :
                LutChar(r, i) < FontSize
    /\ (k_pc = "done" /\ k_in.op \in {"ramp", "cell"}) =>
          k_out.selected_char < FontSize

\* ------------------------------------------------------------------- C21
\* C21: under fair scheduling every call of engine_process_frame_to_ascii
\* returns, every started worker finishes its band (empty bands too), and
\* every join completes, for every grid size and worker count of the model.
C21_FrameProcessingTerminates ==
    /\ (pc \in ProcessPcs) ~> (pc \notin ProcessPcs)
    /\ \A i \in 0..(MaxThreads - 1) :
          (i \in Workers /\ wstatus[i] = "running")
              ~> (i \in Workers /\ wstatus[i] = "joined")

\* A call with two workers on a one-row grid has returned: the first band
\* was empty, both workers were joined.
C21_Witness ==
    /\ pc \notin ProcessPcs
    /\ process_calls >= 1
    /\ num_threads = 2
    /\ ascii_height = 1
    /\ alloc_h = 1
    /\ worker_args[0].start_row = worker_args[0].end_row
    /\ \A i \in Workers : wstatus[i] = "joined"

\* ------------------------------------------------------------------- C22
\* The successful allocations since the most recent reset, as regions
\* <<first byte, byte after the last>> of the sizes asked for.
LiveRegions ==
    [k \in {j \in DOMAIN alloc_log : alloc_log[j].p # NULL} |->
        <<alloc_log[k].p, alloc_log[k].p + alloc_log[k].size>>]

Disjoint(r1, r2) == r1[2] <= r2[1] \/ r2[2] <= r1[1]

\* C22: after any sequence of init, allocate and reset, 0 <= used <=
\* capacity and used is a multiple of 16; the regions of the successful
\* allocations since the most recent reset are pairwise disjoint and lie
\* inside the backing region; the character buffer, the colour buffer and
\* the scratch buffer of a frame do not overlap.
C22_ArenaInvariant ==
    /\ frame_arena.used >= 0
    /\ frame_arena.used <= frame_arena.size
    /\ frame_arena.size <= capacity
    /\ frame_arena.used % 16 = 0
    /\ \A k \in DOMAIN LiveRegions :
          /\ LiveRegions[k][1] >= 0
          /\ LiveRegions[k][2] <= frame_arena.size \/ pc = "done"
          /\ LiveRegions[k][2] <= alloc_log[Len(alloc_log)].after
    /\ \A j, k \in DOMAIN LiveRegions :
          j # k => Disjoint(LiveRegions[j], LiveRegions[k])
    /\ (Len(alloc_log) >= 2 /\ char_buffer # NULL /\ color_buffer # NULL) =>
          /\ Disjoint(<<char_buffer, char_buffer + alloc_w * alloc_h>>,
                      <<color_buffer, color_buffer + 3 * alloc_w * alloc_h>>)
          /\ (Len(alloc_log) = 3 /\ alloc_log[3].p # NULL) =>
                \A b \in {<<char_buffer, char_buffer + alloc_w * alloc_h>>,
                           <<color_buffer, color_buffer + 3 * alloc_w * alloc_h>>} :
                    Disjoint(b, <<alloc_log[3].p,
                                  alloc_log[3].p + alloc_log[3].size>>)

\* The second frame of a run holds three non-empty regions.
C22_Witness ==
    /\ resets = 2
    /\ Len(alloc_log) = 3
    /\ \A k \in 1..3 : alloc_log[k].p # NULL /\ alloc_log[k].size > 0
    /\ alloc_log[2].size % 16 # 0
    /\ frame_arena.used > 0
    /\ frame_arena.used < capacity

\* ------------------------------------------------------------------- C23
\* What one worker with the band 0..ascii_height stores: the loops of
\* process_slice_worker over the whole grid, one store per cell.
SingleWorkerChars ==
    [c \in 0..(alloc_w * alloc_h - 1) |->
        CellChar(rgb_frame, width, height, c % alloc_w, c \div alloc_w,
                 alloc_w, alloc_h)]

SingleWorkerColors ==
    [c \in 0..(alloc_w * alloc_h - 1) |->
        CellColor(rgb_frame, width, height, c % alloc_w, c \div alloc_w,
                  alloc_w, alloc_h)]

\* C23: for the same picture, configuration and grid, the character and
\* colour buffers a call returns with any worker count are those a single
\* worker produces; a cell does not depend on its band.
C23_WorkerCountIndependent ==
    (Returned /\ ~AllocFailed(char_buffer, color_buffer)) =>
        /\ char_mem = SingleWorkerChars
        /\ color_mem = SingleWorkerColors

\* Two workers, the second band starting below the top row, on a picture
\* whose rows differ.
C23_Witness ==
    /\ Returned
    /\ ~AllocFailed(char_buffer, color_buffer)
    /\ num_threads = 2
    /\ rgb_frame = "diag"
    /\ worker_args[1].start_row > 0
    /\ worker_args[1].end_row > worker_args[1].start_row
    /\ AllWritten
    /\ \E c \in DOMAIN char_mem :
          /\ c + alloc_w \in DOMAIN char_mem
          /\ char_mem[c] # char_mem[c + alloc_w]

\* ------------------------------------------------------------------- C24
\* C24: the console renderer stores no byte behind its scratch buffer of
\* (ascii_width * 20 + 2) * ascii_height bytes: the bytes touched (escape
\* sequences, characters, the NUL of each sprintf, row terminators and
\* the final NUL) stay within the allocated size.
C24_ConsoleWritesWithinScratch ==
    (k_out.op = "console") => k_out.high <= k_out.size

\* ------------------------------------------------------------------- C26
\* C26: at every call of engine_encode_video_frame the composited RGB
\* buffer, 8 * ascii_width by 8 * ascii_height pixels, has the dimensions
\* the encoder, its YUV frame and the converter were created with in
\* engine_init, also when fit_to_terminal has replaced the grid.
C26_EncoderDimensionsMatch ==
    (pc = "encode_alloc") =>
        /\ ascii_width * GlyphPx = enc_width
        /\ ascii_height * GlyphPx = enc_height

\* ------------------------------------------------------------------- C27
\* C27: no resize signal is lost: whenever the playback loop finds the
\* flag clear and goes on with the packet without re-fitting, every
\* signal delivered so far was followed by a query of the terminal size.
C27_NoResizeSignalLost ==
    [][(pc = "check_resize" /\ pc' \in {"decode", "get_packet"})
            => ~unseen_resize]_vars

====
